---- MODULE Spec2Model ----
(***************************************************************************)
(* GithubRepositoryReader (gpt_index/readers/github_readers/               *)
(* github_repository_reader.py): construction, load_data, the recursive    *)
(* tree walk, and the per-blob fetch / decode / parse pipeline.            *)
(*                                                                         *)
(* Representation.  A path is a sequence of one-character strings.  A byte *)
(* is 0..255, a text is a sequence of Unicode code points.  A base64       *)
(* character is its alphabet index 0..63, PAD is '=', NL a line break.     *)
(* A git object id (sha) is content-addressed, so the model uses the       *)
(* content itself as identity: [id, tree] with tree the entry list of a    *)
(* tree object and <<>> for every other object.                            *)
(***************************************************************************)
EXTENDS Integers, Sequences, FiniteSets, TLC

None == "None"

(* ---------------------------------------------------------------------- *)
(* Bounds                                                                  *)
(* ---------------------------------------------------------------------- *)
\* total number of entries (over all depths) of a repository tree
MaxEntries == 3
\* number of base64 characters per line in a blob's content
LineLen == 4

(* ---------------------------------------------------------------------- *)
(* Standard-library functions, computed as the library computes them       *)
(* ---------------------------------------------------------------------- *)
Sep == "/"

\* posixpath.join(a, b)
OsPathJoin(a, b) ==
    IF Len(b) > 0 /\ b[1] = Sep THEN b
    ELSE IF a = <<>> \/ a[Len(a)] = Sep THEN a \o b
    ELSE a \o <<Sep>> \o b

\* str.rfind(ch): 0 when absent (positions are 1-based)
RFind(p, ch) ==
    LET hits == {k \in 1..Len(p) : p[k] = ch}
    IN  IF hits = {} THEN 0 ELSE CHOOSE k \in hits : \A j \in hits : j <= k

\* posixpath.basename(p)
OsPathBasename(p) == SubSeq(p, RFind(p, Sep) + 1, Len(p))

\* posixpath.splitext(p)[1]: the last dot of the last component, unless only
\* dots precede it in that component
OsPathSplitextExt(p) ==
    LET sepIndex == RFind(p, Sep)
        dotIndex == RFind(p, ".")
    IN  IF dotIndex > sepIndex
           /\ \E k \in (sepIndex + 1)..(dotIndex - 1) : p[k] # "."
        THEN SubSeq(p, dotIndex, Len(p))
        ELSE <<>>

PAD == 64
NL == 65

RECURSIVE A2bBase64(_, _, _, _, _, _)
\* binascii.a2b_base64 (non-strict), from character k on
A2bBase64(s, k, quad_pos, leftchar, pads, out) ==
    IF k > Len(s)
    THEN IF quad_pos # 0 THEN [ok |-> FALSE, bytes |-> <<>>]
         ELSE [ok |-> TRUE, bytes |-> out]
    ELSE LET c == s[k] IN
         IF c = PAD
         THEN IF quad_pos >= 2 /\ quad_pos + pads + 1 >= 4
              THEN [ok |-> TRUE, bytes |-> out]
              ELSE A2bBase64(s, k + 1, quad_pos, leftchar,
                             IF quad_pos >= 2 THEN pads + 1 ELSE pads, out)
         ELSE IF c >= 64
         THEN A2bBase64(s, k + 1, quad_pos, leftchar, pads, out)
         ELSE CASE quad_pos = 0 ->
                     A2bBase64(s, k + 1, 1, c, 0, out)
                [] quad_pos = 1 ->
                     A2bBase64(s, k + 1, 2, c % 16, 0,
                               Append(out, leftchar * 4 + (c \div 16)))
                [] quad_pos = 2 ->
                     A2bBase64(s, k + 1, 3, c % 4, 0,
                               Append(out, leftchar * 16 + (c \div 4)))
                [] OTHER ->
                     A2bBase64(s, k + 1, 0, 0, 0,
                               Append(out, leftchar * 64 + c))

\* a decoder that rejects every character outside the alphabet
B64DecodeStrict(s) ==
    IF \E k \in 1..Len(s) : s[k] > PAD THEN [ok |-> FALSE, bytes |-> <<>>]
    ELSE A2bBase64(s, 1, 0, 0, 0, <<>>)

\* base64.b64decode(content): ok = FALSE is binascii.Error
B64Decode(s) == A2bBase64(s, 1, 0, 0, 0, <<>>)

IsCont(b) == b >= 128 /\ b <= 191

RECURSIVE Utf8Decode(_, _, _)
\* bytes.decode("utf-8") (strict), from byte k on: ok = FALSE is
\* UnicodeDecodeError
Utf8Decode(b, k, out) ==
    IF k > Len(b) THEN [ok |-> TRUE, text |-> out]
    ELSE LET b1 == b[k]
             bad == [ok |-> FALSE, text |-> <<>>]
         IN
         IF b1 < 128 THEN Utf8Decode(b, k + 1, Append(out, b1))
         ELSE IF b1 >= 194 /\ b1 <= 223
         THEN IF k + 1 <= Len(b) /\ IsCont(b[k + 1])
              THEN Utf8Decode(b, k + 2,
                              Append(out, (b1 - 192) * 64 + (b[k + 1] - 128)))
              ELSE bad
         ELSE IF b1 >= 224 /\ b1 <= 239
         THEN IF k + 2 <= Len(b) /\ IsCont(b[k + 1]) /\ IsCont(b[k + 2])
                 /\ (b1 = 224 => b[k + 1] >= 160)
                 /\ (b1 = 237 => b[k + 1] <= 159)
              THEN Utf8Decode(b, k + 3,
                              Append(out, (b1 - 224) * 4096
                                          + (b[k + 1] - 128) * 64
                                          + (b[k + 2] - 128)))
              ELSE bad
         ELSE IF b1 >= 240 /\ b1 <= 244
         THEN IF k + 3 <= Len(b) /\ IsCont(b[k + 1]) /\ IsCont(b[k + 2])
                 /\ IsCont(b[k + 3])
                 /\ (b1 = 240 => b[k + 1] >= 144)
                 /\ (b1 = 244 => b[k + 1] <= 143)
              THEN Utf8Decode(b, k + 4,
                              Append(out, (b1 - 240) * 262144
                                          + (b[k + 1] - 128) * 4096
                                          + (b[k + 2] - 128) * 64
                                          + (b[k + 3] - 128)))
              ELSE bad
         ELSE bad

BytesDecodeUtf8(b) == Utf8Decode(b, 1, <<>>)

RECURSIVE StrJoin(_, _)
\* sep.join(parts)
StrJoin(sep, parts) ==
    IF parts = <<>> THEN <<>>
    ELSE IF Len(parts) = 1 THEN parts[1]
    ELSE parts[1] \o sep \o StrJoin(sep, Tail(parts))

(* ---------------------------------------------------------------------- *)
(* The hosting service's side: how a text becomes a blob's content         *)
(* ---------------------------------------------------------------------- *)
RECURSIVE Utf8Encode(_)
Utf8Encode(t) ==
    IF t = <<>> THEN <<>>
    ELSE LET c == t[1]
             enc == IF c < 128 THEN <<c>>
                    ELSE IF c < 2048 THEN <<192 + (c \div 64), 128 + (c % 64)>>
                    ELSE IF c < 65536
                    THEN <<224 + (c \div 4096), 128 + ((c \div 64) % 64),
                           128 + (c % 64)>>
                    ELSE <<240 + (c \div 262144), 128 + ((c \div 4096) % 64),
                           128 + ((c \div 64) % 64), 128 + (c % 64)>>
         IN  enc \o Utf8Encode(Tail(t))

RECURSIVE B64Encode(_)
B64Encode(b) ==
    IF b = <<>> THEN <<>>
    ELSE IF Len(b) = 1
    THEN <<b[1] \div 4, (b[1] % 4) * 16, PAD, PAD>>
    ELSE IF Len(b) = 2
    THEN <<b[1] \div 4, (b[1] % 4) * 16 + (b[2] \div 16), (b[2] % 16) * 4, PAD>>
    ELSE <<b[1] \div 4, (b[1] % 4) * 16 + (b[2] \div 16),
           (b[2] % 16) * 4 + (b[3] \div 64), b[3] % 64>>
         \o B64Encode(SubSeq(b, 4, Len(b)))

RECURSIVE WrapLines(_)
\* the service breaks the base64 text into lines, each ended by a line break
WrapLines(s) ==
    IF s = <<>> THEN <<>>
    ELSE IF Len(s) <= LineLen THEN s \o <<NL>>
    ELSE SubSeq(s, 1, LineLen) \o <<NL>> \o WrapLines(SubSeq(s, LineLen + 1, Len(s)))

(* ---------------------------------------------------------------------- *)
(* The remote repository (GithubClient responses)                          *)
(* ---------------------------------------------------------------------- *)
Obj(id) == [id |-> id, tree |-> <<>>]
TreeObj(entries) == [id |-> "tree", tree |-> entries]

TextA == <<104, 233, 8364, 10>>
TextMd == <<35, 128512>>
BytesBin == <<255, 254>>

\* GithubClient.get_blob(owner, repo, sha): the blob objects of the repository
GetBlob(sha) ==
    CASE sha.id = "blob_a" ->
           [sha |-> sha.id, encoding |-> "base64",
            content |-> WrapLines(B64Encode(Utf8Encode(TextA)))]
      [] sha.id = "blob_md" ->
           [sha |-> sha.id, encoding |-> "base64",
            content |-> WrapLines(B64Encode(Utf8Encode(TextMd)))]
      [] sha.id = "blob_bin" ->
           [sha |-> sha.id, encoding |-> "base64",
            content |-> WrapLines(B64Encode(BytesBin))]
      [] sha.id = "blob_bad64" ->
           [sha |-> sha.id, encoding |-> "base64", content |-> <<26, 6, 36>>]
      [] OTHER ->
           [sha |-> sha.id, encoding |-> "utf-8", content |-> <<104, 105>>]

\* the entries a tree can hold that are not directories: files, and a
\* submodule (type "commit")
LeafEntries ==
    { [path |-> <<"a", ".", "t", "x", "t">>, type |-> "blob", sha |-> Obj("blob_a")],
      [path |-> <<"c", ".", "b", "i", "n">>, type |-> "blob", sha |-> Obj("blob_bin")],
      [path |-> <<"d", ".", "m", "d">>, type |-> "blob", sha |-> Obj("blob_md")],
      [path |-> <<"n">>, type |-> "blob", sha |-> Obj("blob_md")],
      [path |-> <<"x", ".", "m", "d">>, type |-> "blob", sha |-> Obj("blob_bad64")],
      [path |-> <<"y", ".", "t", "x", "t">>, type |-> "blob", sha |-> Obj("blob_utf8")],
      [path |-> <<"m", "o", "d">>, type |-> "commit", sha |-> Obj("submodule")] }

DirNames == { <<"b">> }

RECURSIVE TreeSize(_)
TreeSize(entries) ==
    IF entries = <<>> THEN 0
    ELSE 1 + TreeSize(entries[1].sha.tree) + TreeSize(Tail(entries))

\* every tree of at most n entries in total whose entry names are unique
\* within each directory
TreeSet[n \in 0..MaxEntries] ==
    IF n = 0 THEN { <<>> }
    ELSE LET dirs == { [path |-> d, type |-> "tree", sha |-> TreeObj(sub)] :
                         d \in DirNames, sub \in TreeSet[n - 1] }
             first == LeafEntries \cup dirs
         IN  { <<>> } \cup
             UNION { { <<e>> \o rest :
                         rest \in { r \in TreeSet[n - 1 - TreeSize(e.sha.tree)] :
                                      \A k \in 1..Len(r) : r[k].path # e.path } } :
                     e \in first }

Trees == TreeSet[MaxEntries]

\* GithubClient.get_tree(owner, repo, tree_sha).tree
GetTree(sha) == sha.tree

(* ---------------------------------------------------------------------- *)
(* The extractor registry and the extractors                               *)
(* ---------------------------------------------------------------------- *)
\* get_file_extension(file_path): the extension, without its dot
get_file_extension(file_path) ==
    LET ext == OsPathSplitextExt(file_path)
    IN  IF ext = <<>> THEN <<>> ELSE Tail(ext)

\* DEFAULT_FILE_EXTRACTOR.get(file_extension)
DefaultFileExtractorGet(file_extension) ==
    IF file_extension = <<"m", "d">> THEN "MarkdownParser" ELSE None

\* what parser.parse_file can do: raise, or return text segments
ParseOutcomes ==
    { [ok |-> FALSE, segments |-> <<>>] } \cup
    { [ok |-> TRUE, segments |-> s] : s \in { <<>>, << <<84>> >>, << <<84>>, <<85, 10>> >> } }

(* ---------------------------------------------------------------------- *)
(* State                                                                   *)
(* ---------------------------------------------------------------------- *)
VARIABLES
    pc,               \* position of the caller / of load_data
    env_token,        \* the GITHUB_TOKEN environment variable, or None
    client,           \* self._client: the token it was created with, or None
    use_parser,       \* self._use_parser
    raised,           \* the exception that left the constructor or load_data
    ref,              \* the commit_sha or branch load_data dispatches on
    calls,            \* the calls made on the GithubClient, in order
    registry_calls,   \* the calls made on the registry and on extractors
    tree_sha,         \* the root tree the reference resolved to
    stack,            \* the activations of _recurse_tree, innermost last
    blobs_and_paths,  \* the result of the walk
    done_count,       \* iterations of the loop of _generate_documents finished
    cur,              \* the blob in the hands of _parse_supported_file
    documents,        \* the list _generate_documents accumulates
    fs,               \* the temporary directories and files that exist
    tmp_seq,          \* number of temporary directories created so far
    errors,           \* what logger.error recorded
    result            \* what load_data returned

vars == <<pc, env_token, client, use_parser, raised, ref, calls, registry_calls,
          tree_sha, stack, blobs_and_paths, done_count, cur, documents, fs,
          tmp_seq, errors, result>>

NoCur == [blob_data |-> [sha |-> None, encoding |-> None, content |-> <<>>],
          full_path |-> <<>>, decoded_bytes |-> <<>>, parser |-> None,
          tmpdir |-> 0, tmpfile |-> 0]

Call(op, id, tree) == [op |-> op, id |-> id, tree |-> tree]

\* a call on the registry or on an extractor, for the file at path, and what
\* it returned: ok = FALSE is "no extractor" for get and an exception for the
\* extractor's methods
RegCall(op, path, ok, segments) ==
    [op |-> op, path |-> path, ok |-> ok, segments |-> segments]

Init ==
    /\ pc = "new"
    /\ env_token \in {None, "env-token"}
    /\ client = None
    /\ use_parser = FALSE
    /\ raised = None
    /\ ref = None
    /\ calls = <<>>
    /\ registry_calls = <<>>
    /\ tree_sha = TreeObj(<<>>)
    /\ stack = <<>>
    /\ blobs_and_paths = <<>>
    /\ done_count = 0
    /\ cur = NoCur
    /\ documents = <<>>
    /\ fs = [dirs |-> {}, files |-> {}]
    /\ tmp_seq = 0
    /\ errors = <<>>
    /\ result = <<>>

(* ---------------------------------------------------------------------- *)
(* __init__                                                                *)
(* ---------------------------------------------------------------------- *)
\* a resolution that prefers the environment
ResolveTokenEnvFirst(github_token, environ) ==
    IF environ = None THEN github_token ELSE environ

\* the token __init__ ends up with: the argument, else the environment
ResolveToken(github_token, environ) ==
    IF github_token = None THEN environ ELSE github_token

Construct(github_token, parser_flag) ==
    /\ pc = "new"
    /\ LET token == ResolveToken(github_token, env_token) IN
       IF token = None
       THEN /\ raised' = "ValueError"
            /\ pc' = "ctor_failed"
            /\ UNCHANGED <<client, use_parser>>
       ELSE /\ use_parser' = parser_flag
            /\ client' = token
            /\ pc' = "idle"
            /\ UNCHANGED raised
    /\ UNCHANGED <<env_token, ref, calls, registry_calls, tree_sha, stack,
                   blobs_and_paths, done_count, cur, documents, fs, tmp_seq,
                   errors, result>>

(* ---------------------------------------------------------------------- *)
(* load_data and the two resolvers                                         *)
(* ---------------------------------------------------------------------- *)
\* a check that rejects only the call with both arguments
ArgsRejectedBothOnly(commit_sha, branch) ==
    commit_sha # None /\ branch # None

\* the argument check of load_data: TRUE when it raises ValueError
ArgsRejected(commit_sha, branch) ==
    \/ commit_sha # None /\ branch # None
    \/ commit_sha = None /\ branch = None

LoadData(commit_sha, branch) ==
    /\ pc = "idle"
    /\ IF ArgsRejected(commit_sha, branch)
       THEN /\ raised' = "ValueError"
            /\ pc' = "failed"
            /\ UNCHANGED ref
       ELSE IF commit_sha # None
       THEN /\ pc' = "from_commit"
            /\ ref' = commit_sha
            /\ UNCHANGED raised
       ELSE /\ pc' = "from_branch"
            /\ ref' = branch
            /\ UNCHANGED raised
    /\ UNCHANGED <<env_token, client, use_parser, calls, registry_calls,
                   tree_sha, stack, blobs_and_paths, done_count, cur,
                   documents, fs, tmp_seq, errors, result>>

Frame(sha, path) ==
    [tree_sha |-> sha, current_path |-> path, fetched |-> FALSE,
     tree_data |-> <<>>, idx |-> 1, out |-> <<>>]

\* _load_data_from_commit up to its call of _recurse_tree: the remote answers
\* with the commit, whose tree is any tree of the bounded universe
LoadDataFromCommit ==
    /\ pc = "from_commit"
    /\ \E root \in Trees :
         /\ calls' = Append(calls, Call("get_commit", ref, <<>>))
         /\ tree_sha' = TreeObj(root)
         /\ stack' = << Frame(TreeObj(root), <<>>) >>
    /\ pc' = "walk"
    /\ UNCHANGED <<env_token, client, use_parser, raised, ref, registry_calls,
                   blobs_and_paths, done_count, cur, documents, fs, tmp_seq,
                   errors, result>>

\* _load_data_from_branch up to its call of _recurse_tree
LoadDataFromBranch ==
    /\ pc = "from_branch"
    /\ \E root \in Trees :
         /\ calls' = Append(calls, Call("get_branch", ref, <<>>))
         /\ tree_sha' = TreeObj(root)
         /\ stack' = << Frame(TreeObj(root), <<>>) >>
    /\ pc' = "walk"
    /\ UNCHANGED <<env_token, client, use_parser, raised, ref, registry_calls,
                   blobs_and_paths, done_count, cur, documents, fs, tmp_seq,
                   errors, result>>

(* ---------------------------------------------------------------------- *)
(* _recurse_tree                                                           *)
(* ---------------------------------------------------------------------- *)
Top == stack[Len(stack)]
SetTop(f) == [stack EXCEPT ![Len(stack)] = f]

\* a path that forgets the directory
FilePathNameOnly(current_path, name) == name

\* file_path = os.path.join(current_path, tree.path)
FilePath(current_path, name) == OsPathJoin(current_path, name)

\* an extend that puts the new pairs first
ExtendFront(list, more) == more \o list

\* blobs_and_full_paths.extend(...)
Extend(list, more) == list \o more

\* the head of an activation: the get_tree call
RecurseTreeFetch ==
    /\ pc = "walk"
    /\ ~Top.fetched
    /\ calls' = Append(calls, Call("get_tree", Top.tree_sha.id, Top.tree_sha.tree))
    /\ stack' = SetTop([Top EXCEPT !.fetched = TRUE,
                                   !.tree_data = GetTree(Top.tree_sha)])
    /\ UNCHANGED <<pc, env_token, client, use_parser, raised, ref,
                   registry_calls, tree_sha, blobs_and_paths, done_count, cur,
                   documents, fs, tmp_seq, errors, result>>

\* one iteration of the loop over tree_data.tree
RecurseTreeEntry ==
    /\ pc = "walk"
    /\ Top.fetched
    /\ Top.idx <= Len(Top.tree_data)
    /\ LET tree == Top.tree_data[Top.idx]
           file_path == FilePath(Top.current_path, tree.path)
           advanced == [Top EXCEPT !.idx = @ + 1]
       IN  IF tree.type = "tree"
           THEN stack' = Append(SetTop(advanced), Frame(tree.sha, file_path))
           ELSE IF tree.type = "blob"
           THEN stack' = SetTop([advanced EXCEPT
                                   !.out = Append(@, [blob |-> tree,
                                                      path |-> file_path])])
           ELSE stack' = SetTop(advanced)
    /\ UNCHANGED <<pc, env_token, client, use_parser, raised, ref, calls,
                   registry_calls, tree_sha, blobs_and_paths, done_count, cur,
                   documents, fs, tmp_seq, errors, result>>

\* return blobs_and_full_paths: to the activation that recursed (which
\* extends its list), or to the resolver (which starts _generate_documents)
RecurseTreeReturn ==
    /\ pc = "walk"
    /\ Top.fetched
    /\ Top.idx > Len(Top.tree_data)
    /\ IF Len(stack) > 1
       THEN /\ stack' = [SubSeq(stack, 1, Len(stack) - 1)
                           EXCEPT ![Len(stack) - 1].out = Extend(@, Top.out)]
            /\ UNCHANGED <<pc, blobs_and_paths>>
       ELSE /\ stack' = <<>>
            /\ blobs_and_paths' = Top.out
            /\ pc' = "generate"
    /\ UNCHANGED <<env_token, client, use_parser, raised, ref, calls,
                   registry_calls, tree_sha, done_count, cur, documents, fs,
                   tmp_seq, errors, result>>

(* ---------------------------------------------------------------------- *)
(* _generate_documents and _parse_supported_file                           *)
(* ---------------------------------------------------------------------- *)
\* a reader that takes any encoding
EncodingAlwaysSupported(blob_data) == TRUE

\* the assertion on the fetched blob
EncodingSupported(blob_data) == blob_data.encoding = "base64"

\* the Document of the raw-text path
FallbackDocument(text, full_path) ==
    [text |-> text,
     doc_id |-> None,
     extra_info |-> [full_path |-> full_path,
                     file_name |-> OsPathBasename(full_path),
                     file_extension |-> OsPathSplitextExt(full_path)]]

\* an extractor-path Document shaped like the raw-text one
ParsedDocumentBasename(parsed_file, file_path, sha, tree_path) ==
    [text |-> parsed_file,
     doc_id |-> sha,
     extra_info |-> [file_path |-> file_path,
                     file_name |-> OsPathBasename(tree_path)]]

\* the Document of the extractor path
ParsedDocument(parsed_file, file_path, sha, tree_path) ==
    [text |-> parsed_file,
     doc_id |-> sha,
     extra_info |-> [file_path |-> file_path, file_name |-> tree_path]]

\* the tail of an iteration: decode the bytes as UTF-8 and append the
\* Document, or skip the blob on UnicodeDecodeError
DecodeAndAppend(docs, full_path, decoded_bytes) ==
    LET decoded == BytesDecodeUtf8(decoded_bytes)
    IN  IF decoded.ok
        THEN Append(docs, FallbackDocument(decoded.text, full_path))
        ELSE docs

\* whether an iteration hands the blob to _parse_supported_file
UsesParser(flag) == flag

\* an iteration from get_blob up to the point where an extractor is found
\* (or to its end, when none is used)
FetchBlob ==
    /\ pc = "generate"
    /\ done_count < Len(blobs_and_paths)
    /\ LET item == blobs_and_paths[done_count + 1]
           full_path == item.path
           blob_data == GetBlob(item.blob.sha)
           decoded == B64Decode(blob_data.content)
           file_extension == get_file_extension(full_path)
           parser == DefaultFileExtractorGet(file_extension)
       IN  /\ calls' = Append(calls, Call("get_blob", item.blob.sha.id, <<>>))
           /\ IF ~EncodingSupported(blob_data)
              THEN /\ raised' = "AssertionError"
                   /\ pc' = "failed"
                   /\ UNCHANGED <<done_count, cur, documents, registry_calls>>
              ELSE IF ~decoded.ok
              THEN /\ done_count' = done_count + 1
                   /\ UNCHANGED <<pc, raised, cur, documents, registry_calls>>
              ELSE IF ~UsesParser(use_parser)
              THEN /\ documents' = DecodeAndAppend(documents, full_path,
                                                   decoded.bytes)
                   /\ done_count' = done_count + 1
                   /\ UNCHANGED <<pc, raised, cur, registry_calls>>
              ELSE IF parser = None
              THEN /\ registry_calls' =
                        Append(registry_calls, RegCall("get", full_path, FALSE, <<>>))
                   /\ documents' = DecodeAndAppend(documents, full_path,
                                                   decoded.bytes)
                   /\ done_count' = done_count + 1
                   /\ UNCHANGED <<pc, raised, cur>>
              ELSE /\ registry_calls' =
                        Append(registry_calls, RegCall("get", full_path, TRUE, <<>>))
                   /\ cur' = [NoCur EXCEPT !.blob_data = blob_data,
                                           !.full_path = full_path,
                                           !.decoded_bytes = decoded.bytes,
                                           !.parser = parser]
                   /\ pc' = "init_parser"
                   /\ UNCHANGED <<raised, documents, done_count>>
    /\ UNCHANGED <<env_token, client, use_parser, ref, tree_sha, stack,
                   blobs_and_paths, fs, tmp_seq, errors, result>>

\* TemporaryDirectory() and NamedTemporaryFile(dir=..., delete=False)
CreateTmp(f, d, suffix, data) ==
    [dirs |-> f.dirs \cup {d},
     files |-> f.files \cup {[dir |-> d, suffix |-> suffix, data |-> data]}]

\* os.remove(tmpfile.name)
OsRemove(f, d) == [f EXCEPT !.files = {x \in @ : x.dir # d}]

\* a directory made with mkdtemp and never removed
ExitKeepsDirectory(f, d) == f

\* TemporaryDirectory.__exit__: the directory and what is in it
ExitTemporaryDirectory(f, d) ==
    [dirs |-> f.dirs \ {d}, files |-> {x \in f.files : x.dir # d}]

\* parser.init_parser(), then the temporary directory and file and the write
\* of the bytes.  init_parser and the write can raise; nothing catches
\* either, and the with-blocks clean up on the way out
InitParser ==
    /\ pc = "init_parser"
    /\ \E init_ok \in BOOLEAN, write_ok \in BOOLEAN :
         /\ registry_calls' =
              Append(registry_calls,
                     RegCall("init_parser", cur.full_path, init_ok, <<>>))
         /\ IF ~init_ok
            THEN /\ raised' = "ParserInitError"
                 /\ pc' = "failed"
                 /\ UNCHANGED <<fs, tmp_seq, cur>>
            ELSE LET d == tmp_seq + 1
                     made == CreateTmp(fs, d,
                                       <<".">> \o get_file_extension(cur.full_path),
                                       IF write_ok THEN cur.decoded_bytes ELSE <<>>)
                 IN  /\ tmp_seq' = d
                     /\ IF write_ok
                        THEN /\ fs' = made
                             /\ cur' = [cur EXCEPT !.tmpdir = d, !.tmpfile = d]
                             /\ pc' = "parse_file"
                             /\ UNCHANGED raised
                        ELSE /\ fs' = ExitTemporaryDirectory(made, d)
                             /\ raised' = "OSError"
                             /\ pc' = "failed"
                             /\ UNCHANGED cur
    /\ UNCHANGED <<env_token, client, use_parser, ref, calls, tree_sha, stack,
                   blobs_and_paths, done_count, documents, errors, result>>

\* parser.parse_file on the temporary file, the join, the except and finally
\* clauses, the return of _parse_supported_file, and the rest of the
\* iteration of _generate_documents
ParseFile ==
    /\ pc = "parse_file"
    /\ \E outcome \in ParseOutcomes :
         LET parsed_file == IF outcome.ok
                            THEN [none |-> FALSE,
                                  text |-> StrJoin(<<10, 10>>, outcome.segments)]
                            ELSE [none |-> TRUE, text |-> <<>>]
             document == IF parsed_file.none THEN None
                         ELSE ParsedDocument(parsed_file.text, cur.full_path,
                                             cur.blob_data.sha, cur.full_path)
         IN  /\ registry_calls' =
                  Append(registry_calls,
                         RegCall("parse_file", cur.full_path, outcome.ok,
                                 outcome.segments))
             /\ errors' = IF outcome.ok THEN errors
                          ELSE Append(errors, cur.full_path)
             /\ fs' = ExitTemporaryDirectory(OsRemove(fs, cur.tmpfile), cur.tmpdir)
             /\ documents' = IF parsed_file.none
                             THEN DecodeAndAppend(documents, cur.full_path,
                                                  cur.decoded_bytes)
                             ELSE Append(documents, document)
    /\ done_count' = done_count + 1
    /\ cur' = NoCur
    /\ pc' = "generate"
    /\ UNCHANGED <<env_token, client, use_parser, raised, ref, calls, tree_sha,
                   stack, blobs_and_paths, tmp_seq, result>>

\* return documents
ReturnDocuments ==
    /\ pc = "generate"
    /\ done_count = Len(blobs_and_paths)
    /\ result' = documents
    /\ pc' = "done"
    /\ UNCHANGED <<env_token, client, use_parser, raised, ref, calls,
                   registry_calls, tree_sha, stack, blobs_and_paths, done_count,
                   cur, documents, fs, tmp_seq, errors>>

(* ---------------------------------------------------------------------- *)
(* Specification                                                           *)
(* ---------------------------------------------------------------------- *)
Next ==
    \/ \E github_token \in {None, "arg-token"}, parser_flag \in BOOLEAN :
         Construct(github_token, parser_flag)
    \/ \E commit_sha \in {None, "c0ffee"}, branch \in {None, "main"} :
         LoadData(commit_sha, branch)
    \/ LoadDataFromCommit
    \/ LoadDataFromBranch
    \/ RecurseTreeFetch
    \/ RecurseTreeEntry
    \/ RecurseTreeReturn
    \/ FetchBlob
    \/ InitParser
    \/ ParseFile
    \/ ReturnDocuments

Spec == Init /\ [][Next]_vars

(* ---------------------------------------------------------------------- *)
(* What the properties are stated with                                     *)
(* ---------------------------------------------------------------------- *)
Range(q) == { q[k] : k \in 1..Len(q) }

RECURSIVE CountBlobs(_)
\* N: the blob entries of a tree, over all depths
CountBlobs(entries) ==
    IF entries = <<>> THEN 0
    ELSE (IF entries[1].type = "blob" THEN 1
          ELSE IF entries[1].type = "tree" THEN CountBlobs(entries[1].sha.tree)
          ELSE 0)
         + CountBlobs(Tail(entries))

RECURSIVE DfsChains(_)
\* the blob entries of a tree in depth-first entry order, each as the names
\* from the root down to the blob's own name
DfsChains(entries) ==
    IF entries = <<>> THEN <<>>
    ELSE LET e == entries[1]
             sub == IF e.type = "tree" THEN DfsChains(e.sha.tree) ELSE <<>>
             here == IF e.type = "blob" THEN << <<e.path>> >>
                     ELSE [k \in 1..Len(sub) |-> <<e.path>> \o sub[k]]
         IN  here \o DfsChains(Tail(entries))

RECURSIVE DfsTrees(_)
\* the tree objects under a tree object in depth-first pre-order, itself first
DfsTrees(sha) ==
    LET RECURSIVE Below(_)
        Below(entries) ==
            IF entries = <<>> THEN <<>>
            ELSE (IF entries[1].type = "tree" THEN DfsTrees(entries[1].sha)
                  ELSE <<>>)
                 \o Below(Tail(entries))
    IN  <<sha>> \o Below(sha.tree)

RECURSIVE EntryAt(_, _)
\* the entry a chain of names leads to
EntryAt(entries, chain) ==
    LET e == CHOOSE x \in Range(entries) : x.path = chain[1]
    IN  IF Len(chain) = 1 THEN e ELSE EntryAt(e.sha.tree, Tail(chain))

RECURSIVE JoinNames(_)
\* names joined by the separator
JoinNames(chain) ==
    IF Len(chain) = 1 THEN chain[1]
    ELSE JoinNames(SubSeq(chain, 1, Len(chain) - 1)) \o <<Sep>> \o chain[Len(chain)]

RECURSIVE BlankLineJoin(_)
\* text segments with a blank line between consecutive ones
BlankLineJoin(segments) ==
    IF segments = <<>> THEN <<>>
    ELSE IF Len(segments) = 1 THEN segments[1]
    ELSE BlankLineJoin(SubSeq(segments, 1, Len(segments) - 1))
         \o <<10, 10>> \o segments[Len(segments)]

\* the path a Document carries, in either metadata shape
DocPath(d) ==
    IF "full_path" \in DOMAIN d.extra_info THEN d.extra_info.full_path
    ELSE d.extra_info.file_path

DocsOf(path) == { j \in 1..Len(documents) : DocPath(documents[j]) = path }

\* the position of a path in the walk's result (0 when absent)
PosOf(path) ==
    LET hits == { k \in 1..Len(blobs_and_paths) : blobs_and_paths[k].path = path }
    IN  IF hits = {} THEN 0 ELSE CHOOSE k \in hits : TRUE

\* the text a blob object was made from
SourceText(id) == IF id = "blob_a" THEN TextA ELSE TextMd

\* the extension of a file name, dot included
NameExtension(name) ==
    LET dots == { k \in 2..Len(name) : name[k] = "." }
    IN  IF dots = {} THEN <<>>
        ELSE SubSeq(name, CHOOSE k \in dots : \A j \in dots : j <= k, Len(name))

\* whether the registry holds an extractor for a file name
HasExtractor(name) == NameExtension(name) = <<".", "m", "d">>

BlobCalls == SelectSeq(calls, LAMBDA c : c.op = "get_blob")
TreeCalls == SelectSeq(calls, LAMBDA c : c.op = "get_tree")

\* the walk has returned to the resolver
WalkFinished ==
    \/ pc \in {"generate", "init_parser", "parse_file", "done"}
    \/ pc = "failed" /\ calls # <<>>

\* blobs fetched whose iteration has not ended
InFlight ==
    IF pc \in {"init_parser", "parse_file"} \/ (pc = "failed" /\ calls # <<>>)
    THEN 1 ELSE 0

(* ---------------------------------------------------------------------- *)
(* Properties                                                              *)
(* ---------------------------------------------------------------------- *)

\* C1: with extractor dispatch enabled, a file whose extractor raised in
\* parse_file has no Document in the list: no raw-text Document is made from
\* its bytes.
C1_ExtractorFailureIsTerminal ==
    \A k \in 1..Len(registry_calls) :
        LET r == registry_calls[k]
        IN  (r.op = "parse_file" /\ ~r.ok) => DocsOf(r.path) = {}

\* C2: load_data raises ValueError, with no client call made, when both or
\* neither of commit_sha and branch are given; with exactly one it goes to the
\* resolver of that one, whose call is the first on the client, the root tree
\* walked is the one that call returned, and the other resolver is never
\* called.
C2_ExactlyOneReference ==
    /\ [][\A commit_sha \in {None, "c0ffee"}, branch \in {None, "main"} :
            LoadData(commit_sha, branch) =>
              IF (commit_sha = None) = (branch = None)
              THEN pc' = "failed" /\ raised' = "ValueError" /\ calls' = <<>>
              ELSE /\ raised' = None
                   /\ ref' = (IF commit_sha # None THEN commit_sha ELSE branch)
                   /\ pc' = (IF commit_sha # None THEN "from_commit"
                             ELSE "from_branch")]_vars
    /\ [](calls # <<>> =>
            /\ ref \in {"c0ffee", "main"}
            /\ calls[1] = Call(IF ref = "c0ffee" THEN "get_commit"
                               ELSE "get_branch", ref, <<>>)
            /\ \A k \in 2..Len(calls) :
                 calls[k].op \notin {"get_commit", "get_branch"}
            /\ Len(calls) >= 2 =>
                 calls[2] = Call("get_tree", tree_sha.id, tree_sha.tree))
    /\ [](pc = "failed" /\ raised = "ValueError" => calls = <<>>)

C2_Witness ==
    /\ pc = "done"
    /\ ref = "main"
    /\ Len(calls) >= 3

\* C3: once the walk has returned, its result has exactly one pair per blob
\* entry of the tree (N pairs), the paths are pairwise distinct, each pair
\* holds a blob entry and the names from the root down to it joined by the
\* separator, and every blob entry is there.
C3_WalkCompleteAndPathUnique ==
    WalkFinished =>
      LET root == tree_sha.tree
          chains == Range(DfsChains(root))
          n == Len(blobs_and_paths)
      IN  /\ n = CountBlobs(root)
          /\ \A j, k \in 1..n :
               j # k => blobs_and_paths[j].path # blobs_and_paths[k].path
          /\ \A k \in 1..n :
               /\ blobs_and_paths[k].blob.type = "blob"
               /\ \E c \in chains :
                    /\ blobs_and_paths[k].path = JoinNames(c)
                    /\ blobs_and_paths[k].blob = EntryAt(root, c)
          /\ \A c \in chains :
               \E k \in 1..n : blobs_and_paths[k].path = JoinNames(c)

C3_Witness ==
    /\ pc = "generate"
    /\ done_count = 0
    /\ Len(blobs_and_paths) = 2
    /\ \E k \in 1..Len(blobs_and_paths) :
         Len(blobs_and_paths[k].path) > Len(blobs_and_paths[k].blob.path)

\* C4: no per-file error leaves load_data: not a failure of the extractor's
\* preparation, nor of the write of its input, nor of parse_file; a blob with
\* malformed base64, with bytes that are not UTF-8, or whose extractor failed
\* has no entry in the list; and when load_data returns, every other text
\* blob has its Document.
C4_PerFileErrorsNeverAbort ==
    LET ExtractorFailed(path) ==
            \E k \in 1..Len(registry_calls) :
                /\ registry_calls[k].op \in {"init_parser", "parse_file"}
                /\ registry_calls[k].path = path
                /\ ~registry_calls[k].ok
    IN  /\ raised \notin {"ParserInitError", "OSError"}
        /\ \A k \in 1..Len(blobs_and_paths) :
             LET item == blobs_and_paths[k]
             IN  /\ ExtractorFailed(item.path) =>
                      pc # "failed" /\ DocsOf(item.path) = {}
                 /\ (k <= done_count
                     /\ item.blob.sha.id \in {"blob_bad64", "blob_bin"}) =>
                      DocsOf(item.path) = {}
                 /\ (pc = "done"
                     /\ item.blob.sha.id \in {"blob_a", "blob_md"}
                     /\ ~ExtractorFailed(item.path)) =>
                      Cardinality({ j \in 1..Len(result) :
                                      DocPath(result[j]) = item.path }) = 1

\* C5: a blob whose extractor returned segments has exactly one Document:
\* its text is the segments joined by a blank line, its doc_id the blob's
\* sha, its metadata {file_path: full path, file_name: full path}.
C5_ExtractorDocument ==
    \A k \in 1..Len(registry_calls) :
        LET r == registry_calls[k]
        IN  (r.op = "parse_file" /\ r.ok) =>
              /\ Cardinality(DocsOf(r.path)) = 1
              /\ \A j \in DocsOf(r.path) :
                   /\ documents[j].text = BlankLineJoin(r.segments)
                   /\ documents[j].doc_id
                        = blobs_and_paths[PosOf(r.path)].blob.sha.id
                   /\ DOMAIN documents[j].extra_info = {"file_path", "file_name"}
                   /\ documents[j].extra_info.file_path = r.path
                   /\ documents[j].extra_info.file_name = r.path

C5_Witness ==
    /\ pc = "done"
    /\ \E k \in 1..Len(registry_calls) :
         /\ registry_calls[k].op = "parse_file"
         /\ registry_calls[k].ok
         /\ Len(registry_calls[k].segments) = 2
         /\ Len(registry_calls[k].path) > 4

\* C6: a processed blob holding the base64 of the UTF-8 of a text C, when
\* dispatch is off or its name has no extractor, has exactly one Document:
\* its text is C and its metadata {full_path: full path, file_name: the
\* blob's own name, file_extension: that name's extension}.  With dispatch
\* off the registry and the extractors are never called.
C6_FallbackRoundTrip ==
    /\ ~use_parser => registry_calls = <<>> /\ tmp_seq = 0
    /\ \A k \in 1..done_count :
         LET item == blobs_and_paths[k]
         IN  (/\ item.blob.sha.id \in {"blob_a", "blob_md"}
              /\ (~use_parser \/ ~HasExtractor(item.blob.path))) =>
               /\ Cardinality(DocsOf(item.path)) = 1
               /\ \A j \in DocsOf(item.path) :
                    /\ documents[j].text = SourceText(item.blob.sha.id)
                    /\ DOMAIN documents[j].extra_info
                         = {"full_path", "file_name", "file_extension"}
                    /\ documents[j].extra_info.full_path = item.path
                    /\ documents[j].extra_info.file_name = item.blob.path
                    /\ documents[j].extra_info.file_extension
                         = NameExtension(item.blob.path)

C6_Witness ==
    /\ pc = "done"
    /\ ~use_parser
    /\ \E j \in 1..Len(result) :
         /\ result[j].text = TextMd
         /\ result[j].doc_id = None
         /\ result[j].extra_info.file_extension = <<".", "m", "d">>
         /\ result[j].extra_info.full_path # result[j].extra_info.file_name

\* C7: at most one temporary directory and one temporary file exist at any
\* moment, only while parse_file is being called, and none once
\* _parse_supported_file has been left, by return or by exception.
C7_TemporariesReleased ==
    /\ Cardinality(fs.dirs) <= 1
    /\ Cardinality(fs.files) <= 1
    /\ pc # "parse_file" => fs.dirs = {} /\ fs.files = {}
    /\ pc = "parse_file" =>
         /\ fs.dirs = {cur.tmpdir}
         /\ \A f \in fs.files : f.dir = cur.tmpdir /\ f.data = cur.decoded_bytes

C7_Witness ==
    /\ pc = "done"
    /\ tmp_seq >= 2
    /\ errors # <<>>
    /\ \E j \in 1..Len(result) : result[j].doc_id # None
    /\ fs = [dirs |-> {}, files |-> {}]

\* C8: construction without an argument token and without GITHUB_TOKEN raises
\* ValueError with no client created and no call made; otherwise it succeeds,
\* and the client gets the argument when there is one, else the variable.
C8_CredentialAtConstruction ==
    /\ [][\A github_token \in {None, "arg-token"}, parser_flag \in BOOLEAN :
            Construct(github_token, parser_flag) =>
              IF github_token = None /\ env_token = None
              THEN /\ pc' = "ctor_failed"
                   /\ raised' = "ValueError"
                   /\ client' = None
                   /\ calls' = <<>>
              ELSE /\ pc' = "idle"
                   /\ raised' = None
                   /\ client' = (IF github_token # None THEN github_token
                                 ELSE env_token)]_vars
    /\ [](pc = "ctor_failed" => client = None /\ calls = <<>> /\ env_token = None)
    /\ [](calls # <<>> => client # None)

C8_Witness ==
    /\ pc = "ctor_failed"
    /\ raised = "ValueError"
    /\ env_token = None

\* C9: a fetched blob whose encoding is not base64 ends load_data with an
\* AssertionError: it is the last call on the client, nothing is returned,
\* and neither the registry nor an extractor saw that blob.
C9_UnsupportedEncodingIsFatal ==
    /\ \A k \in 1..Len(calls) :
         (calls[k].op = "get_blob"
          /\ GetBlob(Obj(calls[k].id)).encoding # "base64") =>
            /\ k = Len(calls)
            /\ pc = "failed"
            /\ raised = "AssertionError"
            /\ result = <<>>
            /\ cur = NoCur
            /\ LET path == blobs_and_paths[done_count + 1].path
               IN  /\ DocsOf(path) = {}
                   /\ \A j \in 1..Len(registry_calls) :
                        registry_calls[j].path # path
    /\ raised = "AssertionError" =>
         /\ pc = "failed"
         /\ calls # <<>>
         /\ calls[Len(calls)].op = "get_blob"
         /\ GetBlob(Obj(calls[Len(calls)].id)).encoding # "base64"

C9_Witness ==
    /\ raised = "AssertionError"
    /\ documents # <<>>
    /\ done_count + 1 < Len(blobs_and_paths)

\* C10: the resolver's call is the first on the client; every get_tree call
\* precedes every get_blob call, and the trees are fetched in depth-first
\* pre-order; the walk's result is in depth-first entry order; the blobs are
\* fetched in that order, one at a time, the next one only when the
\* iteration of the one before has ended, and each exactly once when
\* load_data returns; the Documents are in that order too.
C10_StagesSequential ==
    /\ calls # <<>> =>
         /\ calls[1].op \in {"get_commit", "get_branch"}
         /\ \A k \in 2..Len(calls) : calls[k].op \in {"get_tree", "get_blob"}
    /\ \A j, k \in 1..Len(calls) :
         (j < k /\ calls[j].op = "get_blob") => calls[k].op = "get_blob"
    /\ \A k \in 1..Len(TreeCalls) :
         /\ k <= Len(DfsTrees(tree_sha))
         /\ TreeCalls[k].tree = DfsTrees(tree_sha)[k].tree
    /\ WalkFinished =>
         /\ stack = <<>>
         /\ Len(TreeCalls) = Len(DfsTrees(tree_sha))
         /\ Len(blobs_and_paths) = Len(DfsChains(tree_sha.tree))
         /\ \A k \in 1..Len(blobs_and_paths) :
              blobs_and_paths[k].path = JoinNames(DfsChains(tree_sha.tree)[k])
    /\ ~WalkFinished => BlobCalls = <<>>
    /\ Len(BlobCalls) = done_count + InFlight
    /\ \A k \in 1..Len(BlobCalls) :
         /\ k <= Len(blobs_and_paths)
         /\ BlobCalls[k].id = blobs_and_paths[k].blob.sha.id
    /\ pc = "done" =>
         /\ Len(BlobCalls) = Len(blobs_and_paths)
         /\ result = documents
    /\ \A j \in 1..Len(documents) :
         /\ PosOf(DocPath(documents[j])) \in 1..done_count
         /\ \A k \in 1..Len(documents) :
              j < k => PosOf(DocPath(documents[j])) < PosOf(DocPath(documents[k]))

C10_Witness ==
    /\ pc = "done"
    /\ Len(TreeCalls) >= 2
    /\ Len(result) >= 2
    /\ Len(DocPath(result[1])) > Len(blobs_and_paths[1].blob.path)

====
